---- MODULE Spec2Model ----
(***************************************************************************)
(* PasswordPolicyChecker: the baseline set by __init__, the evaluation     *)
(* routine evaluate_policy_compliance and the exit code of main.           *)
(*                                                                         *)
(* Python values are records [t, v]: t is the type ("none", "bool",        *)
(* "int"), v the number (a bool is 0 or 1, as in Python).  A dict with an  *)
(* insertion order is a sequence of <<key, value>> pairs; a policy dict is *)
(* a function from the keys it holds.  A list is an object of the heap: a  *)
(* report holds the ids of its three lists, and the heap maps an id to the *)
(* list's contents.  compliance_score is kept in hundredths (88.89 is      *)
(* 8889).                                                                  *)
(***************************************************************************)
EXTENDS Integers, Sequences, FiniteSets, TLC

VARIABLES
    compliance_standards,  \* the checker's baseline dict
    numeric_rule,          \* how _is_control_compliant compares each numeric control
    policy,                \* the policy object handed to the evaluator
    given,                 \* the policy as it was supplied (history)
    heap,                  \* the list objects: id -> contents
    evaluation,            \* the report of the last call that returned
    outcome,               \* of the last call: "none", "returned", "raised"; "tampered"
                           \* once the caller changed a returned report
    returned,              \* every report returned so far
    first_report,          \* the contents of the first report, as returned (history)
    evals,                 \* calls of evaluate_policy_compliance so far
    pc,                    \* "ready", or "exited" once main called sys.exit
    assessment,            \* run_assessment: "none", "evaluated", "failed"
    exit_code              \* the argument of sys.exit (read when pc = "exited")

vars == <<compliance_standards, numeric_rule, policy, given, heap, evaluation,
          outcome, returned, first_report, evals, pc, assessment, exit_code>>

(* ------------------------------ bounds -------------------------------- *)

\* Controls of an input policy that may differ from its base policy.
MaxOverrides == 1
\* Calls of evaluate_policy_compliance in one session.
MaxEvals == 2
\* Distance of a numeric policy value from the required value.
MaxDelta == 1

(* --------------------------- Python values ---------------------------- *)

PyNone == [t |-> "none", v |-> 0]
PyBool(b) == [t |-> "bool", v |-> IF b THEN 1 ELSE 0]
PyInt(n) == [t |-> "int", v |-> n]
\* The mark of a key a policy dict does not hold (never a value of a dict).
Absent == [t |-> "absent", v |-> 0]

(* ------------------------------ baseline ------------------------------ *)

MinimumPasswordLength == 12
MaxPasswordAge == 90
PasswordReusePrevention == 12

\* self.compliance_standards as __init__ builds it, in insertion order.
InitialStandards ==
    << <<"minimum_password_length", PyInt(MinimumPasswordLength)>>,
       <<"require_symbols", PyBool(TRUE)>>,
       <<"require_numbers", PyBool(TRUE)>>,
       <<"require_uppercase", PyBool(TRUE)>>,
       <<"require_lowercase", PyBool(TRUE)>>,
       <<"max_password_age", PyInt(MaxPasswordAge)>>,
       <<"password_reuse_prevention", PyInt(PasswordReusePrevention)>>,
       <<"allow_users_to_change_password", PyBool(TRUE)>>,
       <<"hard_expiry", PyBool(FALSE)>> >>

\* dict.keys() as a sequence, len(dict), dict[key].
DictKeys(d) == [i \in 1..Len(d) |-> d[i][1]]
DictLen(d) == Len(d)
DictKeySet(d) == {d[i][1] : i \in 1..Len(d)}
DictValue(d, key) == d[CHOOSE i \in 1..Len(d) : d[i][1] = key][2]

Controls == DictKeySet(InitialStandards)
BooleanControls == {c \in Controls : DictValue(InitialStandards, c).t = "bool"}
NumericControls == {c \in Controls : DictValue(InitialStandards, c).t = "int"}

(* ------------------------------- policy ------------------------------- *)

\* A key of the policy that is no baseline control.
ExtraKey == "expire_passwords"
PolicyKeys == Controls \cup {ExtraKey}

\* What a policy may hold (or not hold) under a key.
Options(key) ==
    IF key \in BooleanControls \/ key = ExtraKey
    THEN {Absent, PyNone, PyBool(TRUE), PyBool(FALSE)}
    ELSE {Absent, PyNone}
         \cup {PyInt(DictValue(InitialStandards, key).v + d) : d \in (0 - MaxDelta)..MaxDelta}

\* A value under `key` that differs from the required one.
WrongValue(key) ==
    LET req == DictValue(InitialStandards, key)
    IN  IF req.t = "bool" THEN [req EXCEPT !.v = 1 - req.v]
        ELSE [req EXCEPT !.v = req.v - 1]

Fillers == {"absent", "none", "wrong", "mixed"}

\* The first k controls (in baseline order) hold the required value, the
\* others the filler ("mixed": absent, None and wrong in turn); no extra key.
BaseAssignment(k, filler) ==
    [key \in PolicyKeys |->
        IF key = ExtraKey THEN Absent
        ELSE LET i == CHOOSE j \in 1..Len(InitialStandards) : InitialStandards[j][1] = key
             IN  IF i <= k THEN InitialStandards[i][2]
                 ELSE IF filler = "absent" \/ (filler = "mixed" /\ i % 3 = 0) THEN Absent
                 ELSE IF filler = "none" \/ (filler = "mixed" /\ i % 3 = 1) THEN PyNone
                 ELSE WrongValue(key)]

RECURSIVE Overridden(_, _)
Overridden(a, n) ==
    IF n = 0 THEN {a}
    ELSE LET prev == Overridden(a, n - 1)
         IN  prev \cup UNION {{[b EXCEPT ![key] = o] : b \in prev, o \in Options(key)} :
                               key \in PolicyKeys}

\* The dict an assignment stands for: the keys it does not mark absent.
ToDict(a) == [key \in {k \in DOMAIN a : a[k] # Absent} |-> a[key]]
EmptyItems == [key \in {} |-> PyNone]

NonePolicy == [kind |-> "None", items |-> EmptyItems]
\* An object that is neither None nor a mapping (a str has no .get).
StrPolicy == [kind |-> "str", items |-> EmptyItems]
DictPolicy(a) == [kind |-> "dict", items |-> ToDict(a)]

MappingInputs ==
    UNION {{DictPolicy(b) : b \in Overridden(BaseAssignment(k, f), MaxOverrides)} :
           k \in 0..Len(InitialStandards), f \in Fillers}
PolicyInputs == {NonePolicy, StrPolicy} \cup MappingInputs

\* policy.get(control): the value, None when the key is not held.
PolicyGet(pol, control) ==
    IF control \in DOMAIN pol.items THEN pol.items[control] ELSE PyNone
\* The policy object after policy.pop(control, None): the key is gone.
PolicyAfterPop(pol, control) ==
    [pol EXCEPT !.items = [key \in (DOMAIN pol.items) \ {control} |-> pol.items[key]]]
\* The policy object after policy.get(control): get only reads.
PolicyAfterGet(pol, control) == pol

(* ------------------------------ the heap ------------------------------ *)

\* [] and list(...): a new list object; its id is the next free one.
NewList(h, contents) == [heap |-> Append(h, contents), ref |-> Len(h) + 1]
\* list.append(x) on the list `ref`.
ListAppend(h, ref, x) == [h EXCEPT ![ref] = Append(@, x)]

\* list(d.keys()) handing out the list the call before built, when there is one.
CachedListOfKeys(h, d) ==
    IF Len(h) > 3 THEN [heap |-> h, ref |-> Len(h) - 3] ELSE NewList(h, DictKeys(d))
\* list(d.keys()): a new list of the keys, in insertion order.
ListOfKeys(h, d) == NewList(h, DictKeys(d))

(* ---------------------------- the evaluator --------------------------- *)

\* The value of `evaluation` before any call returned.
NoReport ==
    [compliant_controls |-> 0, non_compliant_controls |-> 0, missing_controls |-> 0,
     compliance_score |-> 0, soc2_cc6_2_status |-> "", nist_ia_5_status |-> "",
     overall_status |-> "", policy_type |-> ""]

\* The dict literal `evaluation = {...}`: three new empty lists.
NewEvaluation(h) ==
    LET l1 == NewList(h, <<>>)
        l2 == NewList(l1.heap, <<>>)
        l3 == NewList(l2.heap, <<>>)
    IN  [heap |-> l3.heap,
         evaluation |->
            [compliant_controls |-> l1.ref, non_compliant_controls |-> l2.ref,
             missing_controls |-> l3.ref, compliance_score |-> 0,
             soc2_cc6_2_status |-> "UNKNOWN", nist_ia_5_status |-> "UNKNOWN",
             overall_status |-> "UNKNOWN", policy_type |-> "unknown"]]

\* The branch `if policy is None`, leaving overall_status as it was.
NonePathNoStatus(new, self) ==
    LET keys == ListOfKeys(new.heap, self)
    IN  [heap |-> keys.heap,
         evaluation |-> [new.evaluation EXCEPT !.missing_controls = keys.ref]]
\* The branch `if policy is None`: the heap and the report it returns.
NonePath(new, self) ==
    LET keys == ListOfKeys(new.heap, self)
    IN  [heap |-> keys.heap,
         evaluation |-> [new.evaluation EXCEPT !.missing_controls = keys.ref,
                                               !.overall_status = "NON_COMPLIANT"]]

\* Python's == on two values that are not None: bool and int compare as numbers.
PyEq(a, b) == a.v = b.v

\* self._is_control_compliant(control, current_value, required_value); `rule`
\* is the comparison the checker applies to each numeric control.
is_control_compliant(rule, control, current_value, required_value) ==
    IF required_value.t = "bool" THEN PyEq(current_value, required_value)
    ELSE IF rule[control] = "at_least" THEN current_value.v >= required_value.v
    ELSE current_value.v <= required_value.v

\* `not current_value` in place of `current_value is None`.
IsFalsy(current_value) == current_value.t = "none" \/ current_value.v = 0
\* `current_value is None`.
IsNone(current_value) == current_value.t = "none"

\* The branches of the loop body on a state st = [heap, evaluation,
\* compliant_count, policy, raised].  SkipMissing passes over a control with
\* no value; AppendCompliantNoCount leaves compliant_count as it was.
SkipMissing(st, control) == st
AppendMissing(st, control) ==
    [st EXCEPT !.heap = ListAppend(@, st.evaluation.missing_controls, control)]
AppendCompliantNoCount(st, control) ==
    [st EXCEPT !.heap = ListAppend(@, st.evaluation.compliant_controls, control)]
AppendCompliant(st, control) ==
    [st EXCEPT !.heap = ListAppend(@, st.evaluation.compliant_controls, control),
               !.compliant_count = @ + 1]
AppendNonCompliant(st, control) ==
    [st EXCEPT !.heap = ListAppend(@, st.evaluation.non_compliant_controls, control)]

\* The if / elif / else of the loop body.
Classify(st, rule, control, current_value, required_value) ==
    IF IsNone(current_value) THEN AppendMissing(st, control)
    ELSE IF is_control_compliant(rule, control, current_value, required_value)
         THEN AppendCompliant(st, control)
         ELSE AppendNonCompliant(st, control)

\* The loop body with `if` in place of `elif`: a missing control also takes
\* the second statement's else branch.
LoopBodyIfForElif(st, rule, control, required_value) ==
    IF st.raised # "" THEN st
    ELSE IF st.policy.kind # "dict" THEN [st EXCEPT !.raised = "AttributeError"]
    ELSE LET current_value == PolicyGet(st.policy, control)
             got == [st EXCEPT !.policy = PolicyAfterGet(@, control)]
         IN  IF IsNone(current_value)
             THEN AppendNonCompliant(AppendMissing(got, control), control)
             ELSE Classify(got, rule, control, current_value, required_value)
\* One pass of the loop body; policy.get on an object with no such attribute
\* raises AttributeError, and a raised exception ends the call.
LoopBody(st, rule, control, required_value) ==
    IF st.raised # "" THEN st
    ELSE IF st.policy.kind # "dict" THEN [st EXCEPT !.raised = "AttributeError"]
    ELSE LET current_value == PolicyGet(st.policy, control)
             got == [st EXCEPT !.policy = PolicyAfterGet(@, control)]
         IN  Classify(got, rule, control, current_value, required_value)

\* for control, required_value in self.compliance_standards.items(), from
\* the i-th item on.
RECURSIVE Loop(_, _, _, _)
Loop(st, rule, self, i) ==
    IF i > DictLen(self) THEN st
    ELSE Loop(LoopBody(st, rule, self[i][1], self[i][2]), rule, self, i + 1)

ComplianceThreshold == 90

\* n / d rounded to an integer, a tie to the even one.
RoundHalfEven(n, d) ==
    LET q == n \div d
        r == n % d
    IN  IF 2 * r < d THEN q
        ELSE IF 2 * r > d THEN q + 1
        ELSE IF q % 2 = 0 THEN q ELSE q + 1

\* The score truncated instead of rounded.
TruncatedScore(compliant_count, total_controls) ==
    (compliant_count * 100 * 100) \div total_controls
\* round((compliant_count / total_controls) * 100, 2), in hundredths.
ComplianceScore(compliant_count, total_controls) ==
    RoundHalfEven(compliant_count * 100 * 100, total_controls)

\* The status with the threshold at 80.
OverallStatusAt80(score) ==
    IF score >= 80 * 100 THEN "COMPLIANT" ELSE "NON_COMPLIANT"
\* 'COMPLIANT' if evaluation['compliance_score'] >= 90 else 'NON_COMPLIANT'.
OverallStatus(score) ==
    IF score >= ComplianceThreshold * 100 THEN "COMPLIANT" ELSE "NON_COMPLIANT"

\* evaluate_policy_compliance(self, policy) on the heap h: what it raised
\* ("" when it returned), the report it returned, and the heap and the policy
\* object after the call.
EvaluatePolicyCompliance(self, rule, pol, h) ==
    LET new == NewEvaluation(h)
    IN  IF pol.kind = "None"
        THEN LET none == NonePath(new, self)
             IN  [raised |-> "", evaluation |-> none.evaluation,
                  heap |-> none.heap, policy |-> pol]
        ELSE LET total_controls == DictLen(self)
                 st == Loop([heap |-> new.heap, evaluation |-> new.evaluation,
                             compliant_count |-> 0, policy |-> pol, raised |-> ""],
                            rule, self, 1)
                 score == ComplianceScore(st.compliant_count, total_controls)
             IN  IF st.raised # ""
                 THEN [raised |-> st.raised, evaluation |-> NoReport,
                       heap |-> st.heap, policy |-> st.policy]
                 ELSE [raised |-> "",
                       evaluation |-> [st.evaluation EXCEPT
                                          !.compliance_score = score,
                                          !.overall_status = OverallStatus(score)],
                       heap |-> st.heap, policy |-> st.policy]

\* A report with its lists' contents in place of their ids.
Contents(rep, h) ==
    [rep EXCEPT !.compliant_controls = h[@],
                !.non_compliant_controls = h[@],
                !.missing_controls = h[@]]

(* ------------------------------- main --------------------------------- *)

\* checker.run_assessment(): the policy is fetched and evaluated, and the
\* run succeeds when the overall status is COMPLIANT; a fetch that fails
\* ends the assessment without an evaluation.
RunAssessment(self, rule, fetch_ok, pol, h) ==
    IF ~fetch_ok
    THEN [success |-> FALSE, assessment |-> "failed",
          call |-> [raised |-> "", evaluation |-> NoReport, heap |-> h, policy |-> pol]]
    ELSE LET call == EvaluatePolicyCompliance(self, rule, pol, h)
         IN  [success |-> call.evaluation.overall_status = "COMPLIANT",
              assessment |-> "evaluated", call |-> call]

\* The exit code with the two cases swapped.
ExitCodeSwapped(success) == IF success THEN 1 ELSE 0
\* sys.exit(0 if success else 1).
ExitCode(success) == IF success THEN 0 ELSE 1

(* ------------------------------ actions ------------------------------- *)

ListFields == {"compliant_controls", "non_compliant_controls", "missing_controls"}
NumericRules == [NumericControls -> {"at_least", "at_most"}]

\* The checker is constructed and a policy is at hand; nothing was called.
Start(inputs) ==
    /\ compliance_standards = InitialStandards
    /\ numeric_rule \in NumericRules
    /\ policy \in inputs
    /\ given = policy
    /\ heap = <<>>
    /\ evaluation = NoReport
    /\ outcome = "none"
    /\ returned = <<>>
    /\ first_report = NoReport
    /\ evals = 0
    /\ pc = "ready"
    /\ assessment = "none"
    /\ exit_code = 0

Init == Start(PolicyInputs)

\* checker.evaluate_policy_compliance(policy), as a caller's step.
Call ==
    /\ LET call == EvaluatePolicyCompliance(compliance_standards, numeric_rule, policy, heap)
       IN  /\ policy' = call.policy
           /\ heap' = call.heap
           /\ IF call.raised = ""
              THEN /\ outcome' = "returned"
                   /\ evaluation' = call.evaluation
                   /\ returned' = Append(returned, call.evaluation)
                   /\ first_report' = IF returned = <<>>
                                      THEN Contents(call.evaluation, call.heap)
                                      ELSE first_report
              ELSE /\ outcome' = "raised"
                   /\ UNCHANGED <<evaluation, returned, first_report>>
    /\ evals' = evals + 1
    /\ UNCHANGED <<compliance_standards, numeric_rule, given, pc, assessment, exit_code>>

\* The first call of evaluate_policy_compliance on the checker.
Evaluate ==
    /\ pc = "ready"
    /\ evals = 0
    /\ Call

\* A later call, with the policy object of the first.
EvaluateAgain ==
    /\ pc = "ready"
    /\ evals > 0
    /\ evals < MaxEvals
    /\ Call

\* A run of main: the checker is constructed, run_assessment fetches the
\* policy (None or a mapping; the fetch may fail) and evaluates it, and the
\* process exits.
Main ==
    /\ pc = "ready"
    /\ evals = 0
    /\ policy.kind \in {"None", "dict"}
    /\ \E fetch_ok \in BOOLEAN :
          LET run == RunAssessment(InitialStandards, numeric_rule, fetch_ok, policy, heap)
          IN  /\ compliance_standards' = InitialStandards
              /\ policy' = run.call.policy
              /\ heap' = run.call.heap
              /\ evaluation' = run.call.evaluation
              /\ assessment' = run.assessment
              /\ outcome' = IF fetch_ok THEN "returned" ELSE "none"
              /\ returned' = IF fetch_ok THEN Append(returned, run.call.evaluation)
                             ELSE returned
              /\ first_report' = IF fetch_ok
                                 THEN Contents(run.call.evaluation, run.call.heap)
                                 ELSE first_report
              /\ evals' = IF fetch_ok THEN evals + 1 ELSE evals
              /\ exit_code' = ExitCode(run.success)
    /\ pc' = "exited"
    /\ UNCHANGED <<numeric_rule, given>>

\* The caller empties a list of a report it was handed (list.clear()).
MutateReport ==
    /\ pc = "ready"
    /\ \E r \in 1..Len(returned), f \in ListFields :
          /\ heap[returned[r][f]] # <<>>
          /\ heap' = [heap EXCEPT ![returned[r][f]] = <<>>]
    /\ outcome' = "tampered"
    /\ UNCHANGED <<compliance_standards, numeric_rule, policy, given, evaluation,
                   returned, first_report, evals, pc, assessment, exit_code>>

Next == Evaluate \/ Main

Spec == Init /\ [][Next]_vars

\* A session of one caller: the same policy is evaluated again and again,
\* and the caller changes the reports it holds in between.
SessionInputs ==
    {NonePolicy, StrPolicy}
    \cup {DictPolicy(BaseAssignment(k, f)) : k \in 0..Len(InitialStandards), f \in Fillers}

SessionInit == Start(SessionInputs)

SessionNext == Evaluate \/ EvaluateAgain \/ MutateReport

SessionSpec == SessionInit /\ [][SessionNext]_vars

(* ------------------------------ claims -------------------------------- *)

\* The last report returned, with its lists' contents.
Report == Contents(evaluation, heap)
SeqToSet(q) == {q[i] : i \in 1..Len(q)}
\* How often `x` occurs in the three lists of the report.
Occurrences(x) ==
    Cardinality({i \in 1..Len(Report.compliant_controls) : Report.compliant_controls[i] = x})
    + Cardinality({i \in 1..Len(Report.non_compliant_controls) :
                      Report.non_compliant_controls[i] = x})
    + Cardinality({i \in 1..Len(Report.missing_controls) : Report.missing_controls[i] = x})
\* The supplied policy holds no value for the control: no key, or None.
HoldsNothing(c) ==
    \/ given.kind = "None"
    \/ c \notin DOMAIN given.items
    \/ given.items[c].t = "none"
Verdicts == {"COMPLIANT", "NON_COMPLIANT"}

\* C1: for policy = None the report lists all 9 baseline controls in
\* missing_controls, its other two lists are empty, its score is 0 and its
\* overall status is NON_COMPLIANT.
C1_NonePolicyAllMissing ==
    (outcome = "returned" /\ given.kind = "None") =>
        /\ Len(Report.missing_controls) = 9
        /\ SeqToSet(Report.missing_controls) = Controls
        /\ Report.compliant_controls = <<>>
        /\ Report.non_compliant_controls = <<>>
        /\ Report.compliance_score = 0
        /\ Report.overall_status = "NON_COMPLIANT"

C1_Witness ==
    /\ outcome = "returned"
    /\ given.kind = "None"
    /\ Len(Report.missing_controls) = 9

\* The supplied policy holds, for every baseline control, the required value.
MatchesBaseline ==
    /\ given.kind = "dict"
    /\ \A i \in 1..Len(InitialStandards) :
          /\ InitialStandards[i][1] \in DOMAIN given.items
          /\ given.items[InitialStandards[i][1]] = InitialStandards[i][2]

\* C2: for a policy that holds the required value under every baseline
\* control, all 9 controls are compliant, the other two lists are empty,
\* the score is 100.0 and the overall status is COMPLIANT.
C2_MatchingPolicyCompliant ==
    (outcome = "returned" /\ MatchesBaseline) =>
        /\ Len(Report.compliant_controls) = 9
        /\ SeqToSet(Report.compliant_controls) = Controls
        /\ Report.non_compliant_controls = <<>>
        /\ Report.missing_controls = <<>>
        /\ Report.compliance_score = 100 * 100
        /\ Report.overall_status = "COMPLIANT"

C2_Witness ==
    /\ outcome = "returned"
    /\ MatchesBaseline
    /\ given.items["hard_expiry"] = PyBool(FALSE)
    /\ Report.overall_status = "COMPLIANT"

\* C3: for a mapping policy the overall status is COMPLIANT exactly when the
\* score is at least 90, and NON_COMPLIANT otherwise; with 8 of the 9
\* controls compliant the score is 88.89 and the status NON_COMPLIANT.
C3_StatusFromScore ==
    (outcome = "returned" /\ given.kind = "dict") =>
        /\ Report.overall_status = "COMPLIANT" <=> Report.compliance_score >= 90 * 100
        /\ Report.overall_status # "COMPLIANT" => Report.overall_status = "NON_COMPLIANT"
        /\ Len(Report.compliant_controls) = 8 =>
              /\ Report.compliance_score = 8889
              /\ Report.overall_status = "NON_COMPLIANT"

C3_Witness ==
    /\ outcome = "returned"
    /\ given.kind = "dict"
    /\ Len(Report.compliant_controls) = 8
    /\ Report.overall_status = "NON_COMPLIANT"

\* C4: for a mapping policy the score is the number of compliant controls
\* over the 9 baseline controls, times 100, rounded to two decimals (the
\* hundredth nearest to the quotient), and lies between 0 and 100; missing
\* and non-compliant controls add nothing to the numerator.
C4_ScoreIsRoundedShare ==
    (outcome = "returned" /\ given.kind = "dict") =>
        LET count == Len(Report.compliant_controls)
            score == Report.compliance_score
            diff == 9 * score - count * 100 * 100
        IN  /\ 2 * diff <= 9
            /\ 2 * diff >= 0 - 9
            /\ score >= 0
            /\ score <= 100 * 100
            /\ count + Len(Report.non_compliant_controls) + Len(Report.missing_controls) = 9

C4_Witness ==
    /\ outcome = "returned"
    /\ given.kind = "dict"
    /\ Len(Report.compliant_controls) = 5
    /\ Len(Report.missing_controls) > 0
    /\ Len(Report.non_compliant_controls) > 0
    /\ Report.compliance_score = 5556

\* C5: for None and for a mapping, every baseline control stands in exactly
\* one of the three lists, once, and the lists hold no other name.
C5_ControlsPartitioned ==
    outcome = "returned" =>
        /\ \A c \in Controls : Occurrences(c) = 1
        /\ SeqToSet(Report.compliant_controls) \cup SeqToSet(Report.non_compliant_controls)
              \cup SeqToSet(Report.missing_controls) \subseteq Controls

C5_Witness ==
    /\ outcome = "returned"
    /\ given.kind = "dict"
    /\ ExtraKey \in DOMAIN given.items
    /\ Report.compliant_controls # <<>>
    /\ Report.non_compliant_controls # <<>>
    /\ Report.missing_controls # <<>>

C7_BooleanControls ==
    (outcome = "returned" /\ given.kind = "dict") =>
        \A i \in 1..Len(InitialStandards) :
            LET c == InitialStandards[i][1]
                required == InitialStandards[i][2]
            IN  (required.t = "bool" /\ ~HoldsNothing(c)) =>
                    /\ c \notin SeqToSet(Report.missing_controls)
                    /\ c \in SeqToSet(Report.compliant_controls)
                          <=> given.items[c] = required
                    /\ c \in SeqToSet(Report.non_compliant_controls)
                          <=> given.items[c] # required

C7_Witness ==
    /\ outcome = "returned"
    /\ given.kind = "dict"
    /\ {"hard_expiry", "require_symbols"} \subseteq DOMAIN given.items
    /\ given.items["hard_expiry"] = PyBool(FALSE)
    /\ given.items["require_symbols"] = PyBool(FALSE)
    /\ "hard_expiry" \in SeqToSet(Report.compliant_controls)
    /\ "require_symbols" \in SeqToSet(Report.non_compliant_controls)

C9_StandardStatusesSet ==
    outcome = "returned" =>
        /\ Report.soc2_cc6_2_status \in Verdicts
        /\ Report.nist_ia_5_status \in Verdicts

\* No list is shared between two reports, or between two fields of one.
NoSharedList ==
    \A r1, r2 \in 1..Len(returned) : \A f1, f2 \in ListFields :
        returned[r1][f1] = returned[r2][f2] => (r1 = r2 /\ f1 = f2)

\* C10: evaluations leave the baseline (9 entries) and the policy as they
\* were, every returned list is a new one, and each evaluation of the same
\* policy returns the report the first one returned, whatever the caller
\* did to the reports it holds.
C10_EvaluationLeavesInputsAlone ==
    /\ compliance_standards = InitialStandards
    /\ DictLen(compliance_standards) = 9
    /\ policy = given
    /\ NoSharedList
    /\ outcome = "returned" => Report = first_report

C10_Witness ==
    /\ outcome = "returned"
    /\ evals >= 2
    /\ given.kind = "None"
    /\ heap[returned[1].missing_controls] = <<>>
    /\ Len(Report.missing_controls) = 9

====
